---- MODULE Spec2Model ----
(***************************************************************************)
(* Model of src/main.py: generate_background_image(config).                *)
(*                                                                         *)
(* The function is one straight-line run; it is cut into steps at the      *)
(* places where it can raise or where it writes to the file system.        *)
(* Python floats are modelled as exact rationals <<numerator, denom>>      *)
(* (0.70 is 7/10); int() is truncation.  File paths are sequences of       *)
(* tokens, with ".png" one token, so that str.replace and os.path.dirname  *)
(* are computed on the text as the library computes them.  Directory       *)
(* entry names are naturals whose order stands for the lexicographic       *)
(* order of the globbed paths.                                             *)
(***************************************************************************)
EXTENDS Integers, Sequences, FiniteSets

(***************************************************************************)
(* State.                                                                  *)
(*   config, dir         the inputs: the configuration document and the    *)
(*                       listing of input_dir (entry name -> kind)         *)
(*   pc, error           position in the run, and the exception raised     *)
(*   canvas_size, min_gap_ratio, output_path     locals of lines 58-61     *)
(*   image_paths, warnings, listed               lines 64-76               *)
(*   num_columns .. min_gap_size                 lines 79-91               *)
(*   row, col, current_image, gap_size, start_gap   loop locals, 97-137    *)
(*   canvas_created, pasted    the canvas of line 94 and its pastes (135)  *)
(*   row_log             the geometry computed for each row so far         *)
(*   made_dirs, written  directories made (141) and files saved, in order  *)
(***************************************************************************)

VARIABLES config, dir, pc, error, canvas_size, min_gap_ratio, output_path,
          image_paths, warnings, listed, num_columns, num_rows,
          full_icon_size, icon_size, min_gap_size, gap_size, start_gap,
          row, col, current_image, canvas_created, pasted, row_log,
          made_dirs, written

vars == <<config, dir, pc, error, canvas_size, min_gap_ratio, output_path,
          image_paths, warnings, listed, num_columns, num_rows,
          full_icon_size, icon_size, min_gap_size, gap_size, start_gap,
          row, col, current_image, canvas_created, pasted, row_log,
          made_dirs, written>>

(***************************************************************************)
(* Bounds of the model.                                                    *)
(***************************************************************************)
MaxItems == 9

MaxDim == 8

RatioDen == 4

MaxEntries == 3

MaxPathLen == 3

(***************************************************************************)
(* Exact rational arithmetic standing for Python float arithmetic.         *)
(***************************************************************************)
Abs(a) == IF a < 0 THEN -a ELSE a

Min(a, b) == IF a <= b THEN a ELSE b

RECURSIVE GCD(_, _)
GCD(a, b) == IF b = 0 THEN a ELSE GCD(b, a % b)

Rat(n, d) ==
    LET s == IF d < 0 THEN -1 ELSE 1
        g == GCD(Abs(n), Abs(d))
    IN  <<(s * n) \div g, (s * d) \div g>>

RInt(n) == <<n, 1>>

RAdd(p, q) == Rat(p[1] * q[2] + q[1] * p[2], p[2] * q[2])

RSub(p, q) == Rat(p[1] * q[2] - q[1] * p[2], p[2] * q[2])

RMul(p, q) == Rat(p[1] * q[1], p[2] * q[2])

RDiv(p, q) == Rat(p[1] * q[2], p[2] * q[1])

RLt(p, q) == p[1] * q[2] < q[1] * p[2]

RLe(p, q) == p[1] * q[2] <= q[1] * p[2]

\* int(x): truncation toward zero
Trunc(q) == IF q[1] >= 0 THEN q[1] \div q[2] ELSE -((-q[1]) \div q[2])

\* math.ceil(a / b) for positive integers a, b
CeilDiv(a, b) == (a + b - 1) \div b

(***************************************************************************)
(* File paths as token sequences.                                          *)
(***************************************************************************)
PathTokens == {"x", "/", ".png"}

Paths == UNION {[1..k -> PathTokens] : k \in 0..MaxPathLen}

DefaultOutputPath == <<"x", "/", "x", ".png">>

\* output_path.replace(old, new): every occurrence of the token is replaced
RECURSIVE Replace(_, _, _)
Replace(p, old, new) ==
    IF p = <<>> THEN <<>>
    ELSE (IF Head(p) = old THEN new ELSE <<Head(p)>>) \o Replace(Tail(p), old, new)

RECURSIVE RStripSlash(_)
RStripSlash(p) ==
    IF p # <<>> /\ p[Len(p)] = "/" THEN RStripSlash(SubSeq(p, 1, Len(p) - 1)) ELSE p

\* os.path.dirname (posixpath): head up to the last "/", trailing slashes
\* stripped unless the head consists of slashes only
Dirname(p) ==
    LET slashes == {i \in 1..Len(p) : p[i] = "/"}
        i == IF slashes = {} THEN 0 ELSE CHOOSE m \in slashes : \A j \in slashes : j <= m
        head == SubSeq(p, 1, i)
    IN  IF head # <<>> /\ (\E j \in 1..Len(head) : head[j] # "/")
        THEN RStripSlash(head) ELSE head

PaddedPath(p) == Replace(p, ".png", <<"_extra_padding", ".png">>)

PerspectivePath(p) == Replace(p, ".png", <<"_perspective", ".png">>)

\* a file can be written only at a path that names a file
Writable(p) == p # <<>> /\ p[Len(p)] # "/"

(***************************************************************************)
(* Directory listing: dir maps the name of each entry to its kind.         *)
(***************************************************************************)
Kinds == {"raster", "svg", "svgdir", "subdir"}

EndsWithSvg(k) == k \in {"svg", "svgdir"}

IsFile(k) == k \in {"raster", "svg"}

\* faulty variant: the listing in descending order
RECURSIVE SortedPathsDescending(_)
SortedPathsDescending(S) ==
    IF S = {} THEN <<>>
    ELSE LET m == CHOOSE a \in S : \A b \in S : a >= b
         IN  <<m>> \o SortedPathsDescending(S \ {m})

\* sorted(glob.glob(...)): the entry names in ascending order
RECURSIVE SortedPaths(_)
SortedPaths(S) ==
    IF S = {} THEN <<>>
    ELSE LET m == CHOOSE a \in S : \A b \in S : a <= b
         IN  <<m>> \o SortedPaths(S \ {m})

\* faulty variant: no entry is skipped for its extension
SkippedNever(k) == FALSE

\* the branch of the listing loop that skips an entry with a warning
Skipped(k) == EndsWithSvg(k)

\* the branch of the listing loop that appends an entry to image_paths
Appended(k) == ~Skipped(k) /\ IsFile(k)

RECURSIVE FilterPaths(_, _)
FilterPaths(paths, d) ==
    IF paths = <<>> THEN <<>>
    ELSE (IF Appended(d[Head(paths)]) THEN <<Head(paths)>> ELSE <<>>)
         \o FilterPaths(Tail(paths), d)

(***************************************************************************)
(* Grid geometry.                                                          *)
(***************************************************************************)
\* int(math.ceil(math.sqrt(n * (a / b)))): least k with k*k >= n*a/b
InitialColumns(n, a, b) ==
    CHOOSE k \in 0..(n * a) : k * k * b >= n * a /\ \A j \in 0..(k - 1) : j * j * b < n * a

NumRows(n, columns) == CeilDiv(n, columns)

\* faulty variant: floor instead of ceiling
NumColumnsFloor(n, rows) == n \div rows

NumColumns(n, rows) == CeilDiv(n, rows)

FullIconSize(cs, columns, rows) == Min(cs[1] \div (columns + 1), cs[2] \div rows)

IconSize(full) == RMul(RInt(full), Rat(7, 10))

MinGapSize(icon, ratio) == RMul(icon, ratio)

TotalGap(cs, columns, icon) == RSub(RInt(cs[1]), RMul(RInt(columns), icon))

\* faulty variant: the icon size is never recomputed
NeedsShrinkNever(total, columns, mgs) == FALSE

NeedsShrink(total, columns, mgs) == RLt(total, RMul(RInt(columns + 1), mgs))

ShrunkIconSize(cs, columns, mgs) ==
    RDiv(RSub(RInt(cs[1]), RMul(RInt(columns + 1), mgs)), RInt(columns))

GapSize(total, columns) == RDiv(total, RInt(columns + 1))

\* faulty variant: every row starts one gap in
StartGapFlat(gap, r) == gap

StartGap(gap, r) == RMul(gap, RInt(IF r % 2 = 0 THEN 1 ELSE 2))

\* faulty variant: the column index is off by one
XPositionShifted(sg, c, icon, gap) == RAdd(sg, RMul(RInt(c + 1), RAdd(icon, gap)))

XPosition(sg, c, icon, gap) == RAdd(sg, RMul(RInt(c), RAdd(icon, gap)))

YPosition(full, icon, r) ==
    RAdd(RDiv(RSub(RInt(full), icon), RInt(2)), RInt(r * full))

(***************************************************************************)
(* Configuration document and initial states.                              *)
(***************************************************************************)
StartKeys == {"canvas_size", "min_gap_ratio", "input_dir", "output_path",
              "image_transparency"}

LateKeys == {"extra_padding_factor", "perspective_transform"}

AllKeys == StartKeys \cup LateKeys

\* configurations with every key, or with exactly one key missing
KeySets == {AllKeys} \cup {AllKeys \ {k} : k \in AllKeys}

Config(keys, h, w, ratio, path) ==
    [keys |-> keys, canvas_size |-> [height |-> h, width |-> w],
     min_gap_ratio |-> ratio, output_path |-> path]

Listings == UNION {[S -> Kinds] : S \in SUBSET (1..MaxEntries)}

Zero == RInt(0)

InitRun ==
    /\ pc = "start"
    /\ error = "none"
    /\ canvas_size = <<0, 0>>
    /\ min_gap_ratio = Zero
    /\ output_path = <<>>
    /\ image_paths = <<>>
    /\ warnings = {}
    /\ listed = FALSE
    /\ num_columns = 0
    /\ num_rows = 0
    /\ full_icon_size = 0
    /\ icon_size = Zero
    /\ min_gap_size = Zero
    /\ gap_size = Zero
    /\ start_gap = Zero
    /\ row = 0
    /\ col = 0
    /\ current_image = 0
    /\ canvas_created = FALSE
    /\ pasted = <<>>
    /\ row_log = <<>>
    /\ made_dirs = {}
    /\ written = <<>>

\* every canvas size and gap ratio, for a directory of n raster files
InitLayout ==
    \E n \in 1..MaxItems, h \in 1..MaxDim, w \in 1..MaxDim, rn \in 0..RatioDen :
        /\ config = Config(AllKeys, h, w, Rat(rn, RatioDen), DefaultOutputPath)
        /\ dir = [i \in 1..n |-> "raster"]

\* every directory listing and every missing key, for one canvas
InitListing ==
    \E keys \in KeySets, d \in Listings :
        /\ config = Config(keys, 4, 4, Rat(1, 10), DefaultOutputPath)
        /\ dir = d

\* every output path, for one canvas and a directory of one raster file
InitPaths ==
    \E path \in Paths :
        /\ config = Config(AllKeys, 4, 4, Rat(1, 10), path)
        /\ dir = [i \in 1..1 |-> "raster"]

Init == InitRun /\ (InitLayout \/ InitListing \/ InitPaths)

(***************************************************************************)
(* The run of generate_background_image.                                   *)
(***************************************************************************)
layoutVars == <<num_columns, num_rows, full_icon_size, icon_size, min_gap_size,
                gap_size, start_gap, row, col, current_image, canvas_created,
                pasted, row_log>>

inputVars == <<config, dir>>

readVars == <<canvas_size, min_gap_ratio, output_path>>

listVars == <<image_paths, warnings, listed>>

outVars == <<made_dirs, written>>

Fail(e) == pc' = "failed" /\ error' = e

\* lines 58-62: the five keys read before any work
ReadConfig ==
    /\ pc = "start"
    /\ \/ /\ ~(StartKeys \subseteq config.keys)
          /\ Fail("KeyError")
          /\ UNCHANGED readVars
       \/ /\ StartKeys \subseteq config.keys
          /\ canvas_size' = <<config.canvas_size.height, config.canvas_size.width>>
          /\ min_gap_ratio' = config.min_gap_ratio
          /\ output_path' = config.output_path
          /\ pc' = "list"
          /\ UNCHANGED error
    /\ UNCHANGED <<inputVars, listVars, layoutVars, outVars>>

\* lines 64-76: sorted listing, .svg entries skipped with a warning
ListImages ==
    /\ pc = "list"
    /\ LET file_paths == SortedPaths(DOMAIN dir)
           found == FilterPaths(file_paths, dir)
       IN  /\ image_paths' = found
           /\ warnings' = {p \in DOMAIN dir : Skipped(dir[p])}
           /\ listed' = TRUE
           /\ \/ Len(found) = 0 /\ Fail("ValueError")
              \/ Len(found) # 0 /\ pc' = "plan" /\ UNCHANGED error
    /\ UNCHANGED <<inputVars, readVars, layoutVars, outVars>>

\* lines 78-97: grid dimensions, icon size, minimum gap, blank canvas
PlanGrid ==
    /\ pc = "plan"
    /\ LET num_images == Len(image_paths)
           first == InitialColumns(num_images, canvas_size[1], canvas_size[2])
           rows == NumRows(num_images, first)
           columns == NumColumns(num_images, rows)
           full == FullIconSize(canvas_size, columns, rows)
       IN  /\ num_rows' = rows
           /\ num_columns' = columns
           /\ full_icon_size' = full
           /\ icon_size' = IconSize(full)
           /\ min_gap_size' = MinGapSize(IconSize(full), min_gap_ratio)
    /\ canvas_created' = TRUE
    /\ current_image' = 0
    /\ row' = 0
    /\ pc' = "row"
    /\ UNCHANGED <<inputVars, readVars, listVars, outVars, error, gap_size,
                   start_gap, col, pasted, row_log>>

\* lines 99-118: head of the row loop, gap fitting for the row
BeginRow ==
    /\ pc = "row"
    /\ \/ /\ row < num_rows
          /\ IF num_columns <= 0
             THEN /\ row' = row + 1
                  /\ UNCHANGED <<pc, icon_size, gap_size, start_gap, col, row_log>>
             ELSE LET naive == TotalGap(canvas_size, num_columns, icon_size)
                      shrink == NeedsShrink(naive, num_columns, min_gap_size)
                      icon == IF shrink
                              THEN ShrunkIconSize(canvas_size, num_columns, min_gap_size)
                              ELSE icon_size
                      total_gap == IF shrink
                                   THEN TotalGap(canvas_size, num_columns, icon)
                                   ELSE naive
                      gap == GapSize(total_gap, num_columns)
                  IN  /\ icon_size' = icon
                      /\ gap_size' = gap
                      /\ start_gap' = StartGap(gap, row)
                      /\ row_log' = Append(row_log,
                            [row |-> row, icon_size |-> icon, gap_size |-> gap,
                             start_gap |-> StartGap(gap, row), shrunk |-> shrink])
                      /\ col' = 0
                      /\ pc' = "col"
                      /\ UNCHANGED row
       \/ /\ row >= num_rows
          /\ pc' = "save"
          /\ UNCHANGED <<icon_size, gap_size, start_gap, row, col, row_log>>
    /\ UNCHANGED <<inputVars, readVars, listVars, outVars, error, num_columns,
                   num_rows, full_icon_size, min_gap_size, current_image,
                   canvas_created, pasted>>

\* lines 121-137: one pass of the column loop
PlaceImage ==
    /\ pc = "col"
    /\ \/ /\ col < num_columns /\ current_image < Len(image_paths)
          /\ LET x_position == XPosition(start_gap, col, icon_size, gap_size)
                 y_position == YPosition(full_icon_size, icon_size, row)
             IN  pasted' = Append(pasted,
                     [path |-> image_paths[current_image + 1], row |-> row,
                      col |-> col, x_position |-> x_position,
                      y_position |-> y_position, icon_size |-> icon_size,
                      box |-> <<Trunc(x_position), Trunc(y_position)>>,
                      size |-> Trunc(icon_size)])
          /\ current_image' = current_image + 1
          /\ col' = col + 1
          /\ UNCHANGED <<pc, error, row>>
       \/ /\ col < num_columns /\ current_image < Len(image_paths)
          /\ Fail("ImageError")
          /\ UNCHANGED <<pasted, current_image, col, row>>
       \/ /\ col >= num_columns \/ current_image >= Len(image_paths)
          /\ row' = row + 1
          /\ pc' = "row"
          /\ UNCHANGED <<error, pasted, current_image, col>>
    /\ UNCHANGED <<inputVars, readVars, listVars, outVars, num_columns, num_rows,
                   full_icon_size, icon_size, min_gap_size, gap_size, start_gap,
                   canvas_created, row_log>>

\* lines 139-143: output directory and base composition
SaveBase ==
    /\ pc = "save"
    /\ LET output_dir == Dirname(output_path)
       IN  \/ /\ Fail("OSError")
              /\ UNCHANGED outVars
           \/ /\ output_dir # <<>>
              /\ made_dirs' = made_dirs \cup {output_dir}
              /\ Fail("OSError")
              /\ UNCHANGED written
           \/ /\ output_dir # <<>>
              /\ Writable(output_path)
              /\ made_dirs' = made_dirs \cup {output_dir}
              /\ written' = Append(written, output_path)
              /\ pc' = "pad"
              /\ UNCHANGED error
    /\ UNCHANGED <<inputVars, readVars, listVars, layoutVars>>

\* lines 145-156: padded canvas
SavePadded ==
    /\ pc = "pad"
    /\ \/ /\ "extra_padding_factor" \notin config.keys
          /\ Fail("KeyError")
          /\ UNCHANGED written
       \/ /\ "extra_padding_factor" \in config.keys
          /\ Fail("OSError")
          /\ UNCHANGED written
       \/ /\ "extra_padding_factor" \in config.keys
          /\ Writable(PaddedPath(output_path))
          /\ written' = Append(written, PaddedPath(output_path))
          /\ pc' = "warp"
          /\ UNCHANGED error
    /\ UNCHANGED <<inputVars, readVars, listVars, layoutVars, made_dirs>>

\* lines 158-164: warped canvas
SavePerspective ==
    /\ pc = "warp"
    /\ \/ /\ "perspective_transform" \notin config.keys
          /\ Fail("KeyError")
          /\ UNCHANGED written
       \/ /\ "perspective_transform" \in config.keys
          /\ Fail("OSError")
          /\ UNCHANGED written
       \/ /\ "perspective_transform" \in config.keys
          /\ Writable(PerspectivePath(output_path))
          /\ written' = Append(written, PerspectivePath(output_path))
          /\ pc' = "done"
          /\ UNCHANGED error
    /\ UNCHANGED <<inputVars, readVars, listVars, layoutVars, made_dirs>>

Next ==
    \/ ReadConfig
    \/ ListImages
    \/ PlanGrid
    \/ BeginRow
    \/ PlaceImage
    \/ SaveBase
    \/ SavePadded
    \/ SavePerspective

Spec == Init /\ [][Next]_vars

(***************************************************************************)
(* Properties.                                                             *)
(***************************************************************************)
Positive(q) == RLt(Zero, q)

num_images == Len(image_paths)

\* entries that are regular files and do not end in ".svg"
Usable == {p \in DOMAIN dir : dir[p] = "raster"}

LoopFinished == pc \in {"save", "pad", "warp", "done"}

\* C1: for every item count >= 1, positive canvas dimensions and gap ratio in
\* [0, 1], the base icon size, the icon size and the gap size of every row
\* are strictly positive.
C1_PositiveSizes ==
    /\ canvas_created => full_icon_size > 0
    /\ \A i \in DOMAIN row_log :
          Positive(row_log[i].icon_size) /\ Positive(row_log[i].gap_size)

\* C2: in every state in which the run has failed, no output file has been
\* written by the run.
C2_NoOutputOnFailure == pc = "failed" => written = <<>>

\* C3: in every row the gap used for placement is at least min_gap_ratio
\* times the icon size used for that row, the rows whose icon size was
\* recomputed included.
C3_MinGap ==
    \A i \in DOMAIN row_log :
        RLe(RMul(config.min_gap_ratio, row_log[i].icon_size), row_log[i].gap_size)

C3_Witness ==
    /\ pc = "col"
    /\ \E i \in DOMAIN row_log : row_log[i].shrunk
    /\ \E i \in DOMAIN row_log : ~row_log[i].shrunk

\* C4: every placed item lies inside the canvas it is pasted onto, whose
\* width is canvas_size[1] and height canvas_size[2], both as the computed
\* position and as the pixel box used for the paste, on even and odd rows.
C4_InsideCanvas ==
    \A i \in DOMAIN pasted :
        LET it == pasted[i]
        IN  /\ RLe(Zero, it.x_position)
            /\ RLe(Zero, it.y_position)
            /\ RLe(RAdd(it.x_position, it.icon_size), RInt(canvas_size[1]))
            /\ RLe(RAdd(it.y_position, it.icon_size), RInt(canvas_size[2]))
            /\ it.box[1] >= 0
            /\ it.box[2] >= 0
            /\ it.box[1] + it.size <= canvas_size[1]
            /\ it.box[2] + it.size <= canvas_size[2]

C4_Witness ==
    /\ pc = "done"
    /\ \E i \in DOMAIN pasted : pasted[i].row % 2 = 0 /\ pasted[i].col = num_columns - 1
    /\ \E i \in DOMAIN pasted :
          pasted[i].row % 2 = 1 /\ pasted[i].col = num_columns - 1 /\ pasted[i].size > 0

\* the path with its last token, the ".png" extension, replaced
WithExtension(p, suffix) == SubSeq(p, 1, Len(p) - 1) \o <<suffix, ".png">>

\* C5: a successful run whose output_path ends in ".png" has written exactly
\* three distinct files in the order base, padded, warped: output_path, and
\* output_path with its extension replaced by "_extra_padding.png" and by
\* "_perspective.png", all in the same directory.
C5_ThreeOutputs ==
    (pc = "done" /\ output_path # <<>> /\ output_path[Len(output_path)] = ".png") =>
        /\ written = <<output_path, WithExtension(output_path, "_extra_padding"),
                       WithExtension(output_path, "_perspective")>>
        /\ Cardinality({written[i] : i \in DOMAIN written}) = 3
        /\ \A i \in DOMAIN written : Dirname(written[i]) = Dirname(output_path)

\* C6: when no entry is a regular file not ending in ".svg", the run fails
\* with the empty-input error before a canvas, an output directory or an
\* output file exists; every ".svg" entry gives a warning and is left out of
\* the item list, and never causes that error while a usable entry remains.
C6_EmptyInput ==
    listed =>
        /\ warnings = {p \in DOMAIN dir : EndsWithSvg(dir[p])}
        /\ {image_paths[i] : i \in DOMAIN image_paths} = Usable
        /\ Usable = {} =>
              /\ pc = "failed"
              /\ error = "ValueError"
              /\ ~canvas_created
              /\ made_dirs = {}
              /\ written = <<>>
        /\ Usable # {} => error # "ValueError"

C6_Witness ==
    /\ listed
    /\ pc = "failed"
    /\ error = "ValueError"
    /\ \E p \in DOMAIN dir : dir[p] = "svg"
    /\ \E p \in DOMAIN dir : dir[p] = "subdir"

\* C7: the start offset of a row with even index is one gap and of a row
\* with odd index two gaps, so with two or more rows the start offsets, and
\* the x positions of the first items, of row 0 and row 1 differ.
C7_Alternation ==
    /\ \A i \in DOMAIN row_log :
          row_log[i].start_gap =
              RMul(RInt(IF row_log[i].row % 2 = 0 THEN 1 ELSE 2), row_log[i].gap_size)
    /\ Len(row_log) >= 2 => row_log[1].start_gap # row_log[2].start_gap
    /\ \A i, j \in DOMAIN pasted :
          (pasted[i].row = 0 /\ pasted[j].row = 1 /\ pasted[i].col = 0 /\ pasted[j].col = 0)
              => pasted[i].x_position # pasted[j].x_position

C7_Witness ==
    /\ Len(row_log) >= 2
    /\ \E j \in DOMAIN pasted : pasted[j].row = 1 /\ pasted[j].col = 0

\* C8: the computed grid has at least one row and one column and at least
\* as many cells as items; one item gives a 1 x 1 grid.
C8_GridCoversItems ==
    canvas_created =>
        /\ num_rows >= 1
        /\ num_columns >= 1
        /\ num_rows * num_columns >= num_images
        /\ num_images = 1 => (num_rows = 1 /\ num_columns = 1)

C8_Witness == canvas_created /\ num_images > 1 /\ num_rows * num_columns > num_images

\* least k with k * k >= n * w / h, i.e. ceiling(sqrt(n * w / h))
CeilSqrtRatio(n, w, h) ==
    CHOOSE k \in 0..(n * w) : k * k * h >= n * w /\ \A j \in 0..(k - 1) : j * j * h < n * w

\* C9: the grid equals the reference plan computed from the configured
\* canvas width and height: first columns = ceiling(sqrt(n * width / height)),
\* rows = ceiling(n / first columns), columns = ceiling(n / rows).
C9_ReferencePlan ==
    canvas_created =>
        LET w == config.canvas_size.width
            h == config.canvas_size.height
            first == CeilSqrtRatio(num_images, w, h)
            rows == (num_images + first - 1) \div first
        IN  /\ num_rows = rows
            /\ num_columns = (num_images + rows - 1) \div rows

\* C10: the placement loop places item i of the sorted usable paths, and
\* nothing else, in row i div columns at column i mod columns; when the loop
\* has finished every item is placed once, every row but the last holds
\* `columns` items and the last row between 1 and `columns`.
C10_Placement ==
    /\ \A i \in DOMAIN pasted :
          /\ pasted[i].path \in Usable
          /\ Cardinality({q \in Usable : q < pasted[i].path}) = i - 1
          /\ pasted[i].row = (i - 1) \div num_columns
          /\ pasted[i].col = (i - 1) % num_columns
    /\ LoopFinished =>
          /\ Len(pasted) = Cardinality(Usable)
          /\ \A r \in 0..(num_rows - 1) :
                LET inRow == Cardinality({i \in DOMAIN pasted : pasted[i].row = r})
                IN  IF r < num_rows - 1 THEN inRow = num_columns
                    ELSE inRow >= 1 /\ inRow <= num_columns

C10_Witness ==
    /\ pc = "done"
    /\ num_rows >= 2
    /\ Len(pasted) < num_rows * num_columns
    /\ Len(pasted) = Cardinality(Usable)

====
